---- MODULE Spec2Model ----
(***************************************************************************)
(* State-machine model of JobDriver (executor/job_driver.py): one run of   *)
(* JobDriver.execute, from opening the miner client to closing it.         *)
(*                                                                         *)
(* The driver is one asyncio task.  pc names the await the task is         *)
(* suspended in; every action is "the task resumes from that await and     *)
(* runs, without suspending, up to the next await".  Time passes (Tick)    *)
(* only while the task is suspended.  A message is appended to sent at the *)
(* moment the driver calls miner_client.send_*; the await of that call is  *)
(* the next suspension point.                                              *)
(***************************************************************************)
EXTENDS Integers, Sequences, FiniteSets, TLC

\* The length, in clock ticks, of a time limit that is not zero.
MaxLimit == 1

VARIABLES
    pc,                  \* the await the driver task is suspended in
    now,                 \* the monotonic clock
    deadline,            \* self.deadline: the instant the Timer runs out
    expiry,              \* when the enclosing timeout scope fires; {} outside
    phase,               \* the block of _execute the task is in
    current_stage,       \* self.current_stage
    specs,               \* self.specs: {} is None
    request,             \* initial_job_request: {} before it is received
    sent,                \* messages handed to miner_client.send_*, in order
    raised,              \* the exception execute's handlers received
    client,              \* the miner client scope: "new", "open", "closed"
    startup_time_limit,  \* constructor argument
    debug_no_gpu,        \* settings.DEBUG_NO_GPU_MODE
    outputs_type,        \* type of get_docker_container_outputs' streams
    is_streaming_job,    \* runner.is_streaming_job
    executor_certificate,\* runner.executor_certificate: {} is None
    execution_result,    \* runner.execution_result: {} is None
    job_scope,           \* TRUE while inside "async with runner.start_job()"
    clean_calls,         \* number of calls of runner.clean()
    clean_error,         \* TRUE once runner.clean() has raised
    calls,               \* the operations the task awaited, in order
    stages_since,        \* the clock when the startup block was left: {} before
    outcome              \* how execute ended: "running", "returned", "raised"

vars == <<pc, now, deadline, expiry, phase, current_stage, specs, request,
          sent, raised, client, startup_time_limit, debug_no_gpu,
          outputs_type, is_streaming_job, executor_certificate,
          execution_result, job_scope, clean_calls, clean_error, calls,
          stages_since, outcome>>

\* What the run is given and never changes.
config == <<startup_time_limit, debug_no_gpu, outputs_type, is_streaming_job>>

----------------------------------------------------------------------------
\* Inputs

\* startup_time_limit, timeout_seconds and each field of the timing details
\* are zero or MaxLimit ticks.
Limits == {0, MaxLimit}

\* JobStage, in pipeline order.
Stages == <<"unknown", "executor_startup", "volume_download", "execution",
            "result_upload">>

\* Mutant of StageOfPhase: the download block enters the execution stage.
StageOfPhaseSkipping(p) ==
    CASE p = "startup"   -> "executor_startup"
      [] p = "download"  -> "execution"
      [] p = "execution" -> "result_upload"
      [] p = "upload"    -> "result_upload"

\* The blocks of _execute, and the stage each one's body enters.
StageOfPhase(p) ==
    CASE p = "startup"   -> "executor_startup"
      [] p = "download"  -> "volume_download"
      [] p = "execution" -> "execution"
      [] p = "upload"    -> "result_upload"

TimingDetails ==
    [allowed_leeway : Limits, download_time_limit : Limits,
     execution_time_limit : Limits, streaming_start_time_limit : Limits,
     upload_time_limit : Limits]

\* V0InitialJobRequest, the fields the driver reads.  An optional field is
\* a set: {} is None, {v} is the value v.
AllRequests ==
    [executor_timing : {{}} \cup {{t} : t \in TimingDetails},
     timeout_seconds : {{}} \cup {{n} : n \in Limits},
     streaming_details : {{}} \cup {{[executor_ip |-> ip]} : ip \in BOOLEAN}]

\* The requests the model feeds the driver: beside timing details, one value
\* of timeout_seconds stands for all.
InitialRequests ==
    {r \in AllRequests :
        r.executor_timing = {} \/ r.timeout_seconds \in {{}, {MaxLimit}}}

The(s) == CHOOSE x \in s : TRUE

----------------------------------------------------------------------------
\* Deadline timer

SetTimeout(t, seconds) == t + seconds

ExtendTimeout(d, seconds) == d + seconds

TimeLeft(d, t) == IF d > t THEN d - t ELSE 0

----------------------------------------------------------------------------
\* Exceptions and the messages they become

TimedOutMsg == "Timed out waiting for initial job details from miner"
NoTimingMsg == "No timing received: either timeout_seconds or timing_details must be set"

PhaseTimeoutMsg(p) ==
    CASE p = "download"  -> "Download time exceeded"
      [] p = "execution" -> "Execution time exceeded"
      [] p = "upload"    -> "Upload time exceeded"

Exc(kind, reason, message) == [kind |-> kind, reason |-> reason, message |-> message]

TimeoutError == Exc("TimeoutError", "-", "-")

NoException == Exc("none", "-", "-")

\* Mutant of Translate: the startup block reports its timeout like the other
\* blocks do, as a JobError.
TranslateStartupLikeStages(p, e) ==
    IF e.kind # "TimeoutError" THEN e
    ELSE Exc("JobError", "timeout", TimedOutMsg)

\* What the block p of _execute makes of a TimeoutError leaving its timeout
\* scope; every other exception passes through.
Translate(p, e) ==
    IF e.kind # "TimeoutError" THEN e
    ELSE IF p = "startup" THEN Exc("HordeError", "generic_error", TimedOutMsg)
    ELSE Exc("JobError", "timeout", PhaseTimeoutMsg(p))

\* HordeError.wrap_unhandled: a HordeError is kept, anything else is wrapped.
WrapUnhandled(e) ==
    IF e.kind = "HordeError" THEN e
    ELSE Exc("HordeError", "uncaught_exception", e.message)

Msg(type) ==
    [type |-> type, stage |-> "-", reason |-> "-", message |-> "-",
     exit_status |-> {}, specs |-> {}]

\* Mutant of JobFailedMsg: the execution result is left out.
JobFailedMsgWithoutResult(e, stage, result) ==
    [type |-> "V0JobFailedRequest", stage |-> stage, reason |-> e.reason,
     message |-> e.message, exit_status |-> {}, specs |-> {}]

\* Mutant of JobFailedMsg: without an execution result the exit status is
\* reported as 0.
JobFailedMsgDefaultStatus(e, stage, result) ==
    [type |-> "V0JobFailedRequest", stage |-> stage, reason |-> e.reason,
     message |-> e.message,
     exit_status |-> IF result = {} THEN {0} ELSE {r.return_code : r \in result},
     specs |-> {}]

JobFailedMsg(e, stage, result) ==
    [type |-> "V0JobFailedRequest", stage |-> stage, reason |-> e.reason,
     message |-> e.message,
     exit_status |-> {r.return_code : r \in result}, specs |-> {}]

HordeFailedMsg(e, stage) ==
    [type |-> "V0HordeFailedRequest", stage |-> stage, reason |-> e.reason,
     message |-> e.message, exit_status |-> {}, specs |-> {}]

JobFinishedMsg(sp) ==
    [type |-> "V0JobFinishedRequest", stage |-> "-", reason |-> "-",
     message |-> "-", exit_status |-> {}, specs |-> sp]

----------------------------------------------------------------------------
\* Security gate

SecurityFailure(message) == Exc("HordeError", "security_check_failed", message)

\* run_cve_2022_0492_check_or_fail on a probe that exited with return_code
\* and whose stdout does or does not hold the expected line.  The streams are
\* of type ty: stdout.decode() exists only on bytes, and a str cannot be
\* looked up in bytes.
CveCheck(return_code, found, ty) ==
    IF return_code # 0
    THEN IF ty = "bytes" THEN SecurityFailure("CVE-2022-0492 check failed")
         ELSE Exc("Exception", "-", "AttributeError")
    ELSE IF ty = "bytes" THEN Exc("Exception", "-", "TypeError")
    ELSE IF ~found THEN SecurityFailure("CVE check failed: not in stdout")
    ELSE NoException

\* NVIDIA_CONTAINER_TOOLKIT_MINIMUM_SAFE_VERSION
MinimumSafeVersion == <<1, 17, 4>>

\* What the first line of the toolkit's output may end in: <<>> is a token
\* that is no version.
Versions == {<<>>, <<1, 17, 3>>, <<1, 17, 4>>, <<1, 18, 0>>, <<2, 0, 0>>, <<1, 16, 9>>}

\* packaging.version ordering of two release triples
VersionAtLeast(v, m) ==
    \/ v[1] > m[1]
    \/ v[1] = m[1] /\ v[2] > m[2]
    \/ v[1] = m[1] /\ v[2] = m[2] /\ v[3] >= m[3]

\* run_nvidia_toolkit_version_check_or_fail on a probe that exited with
\* return_code, printed has_lines lines and whose first line ends in version.
NvidiaCheck(return_code, has_lines, version, ty) ==
    IF return_code # 0
    THEN SecurityFailure("nvidia-container-toolkit check failed: exit code")
    ELSE IF ~has_lines
    THEN SecurityFailure("nvidia-container-toolkit check failed: no output")
    ELSE IF ty = "bytes" THEN Exc("Exception", "-", "TypeError")
    ELSE IF version = <<>> THEN Exc("Exception", "-", "InvalidVersion")
    ELSE IF ~VersionAtLeast(version, MinimumSafeVersion)
    THEN Exc("Exception", "-", "AttributeError")
    ELSE NoException

----------------------------------------------------------------------------
\* What an awaited collaborator may raise instead of returning.
Failures ==
    {Exc("JobError", "download_failed", "job error"),
     Exc("JobError", "upload_failed", "job error"),
     Exc("Exception", "-", "unexpected"),
     TimeoutError}

\* The task suspends in the operation pc' names: the operation was invoked.
Log == calls' = Append(calls, pc')

\* Mutant of HandleException: the start_job scope stays open while the
\* failure is reported.
HandleExceptionLeavingScopeOpen(p, e, cause) ==
    LET t == Translate(p, e) IN
    /\ raised' = [kind |-> t.kind, reason |-> t.reason, message |-> t.message,
                  phase |-> p, cause |-> cause, thrown |-> e.kind]
    /\ job_scope' = job_scope
    /\ expiry' = {}
    /\ phase' = p
    /\ IF t.kind = "JobError"
       THEN /\ sent' = Append(sent, JobFailedMsg(t, current_stage', execution_result'))
            /\ pc' = "send_job_failed"
       ELSE /\ sent' = Append(sent, HordeFailedMsg(WrapUnhandled(t), current_stage'))
            /\ pc' = "send_horde_failed"
    /\ Log

\* execute's handlers: exception e leaves block p of _execute.  An open
\* start_job scope and the block's timeout scope are left on the way; the
\* handler calls send_job_failed or send_horde_failed and is suspended in it.
\* Reads current_stage' and execution_result': the values at the time the
\* handler runs.  raised keeps the exception the handler received, the block
\* it left, where it came from and the kind of exception first thrown.
HandleException(p, e, cause) ==
    LET t == Translate(p, e) IN
    /\ raised' = [kind |-> t.kind, reason |-> t.reason, message |-> t.message,
                  phase |-> p, cause |-> cause, thrown |-> e.kind]
    /\ job_scope' = FALSE
    /\ expiry' = {}
    /\ phase' = p
    /\ IF t.kind = "JobError"
       THEN /\ sent' = Append(sent, JobFailedMsg(t, current_stage', execution_result'))
            /\ pc' = "send_job_failed"
       ELSE /\ sent' = Append(sent, HordeFailedMsg(WrapUnhandled(t), current_stage'))
            /\ pc' = "send_horde_failed"
    /\ Log

\* An await inside block phase raises e.
Raise(e) ==
    /\ UNCHANGED <<current_stage, execution_result>>
    /\ HandleException(phase, e, "collaborator")

\* The await returned; the task runs on to the await named next.
Goto(next) ==
    /\ pc' = next
    /\ Log
    /\ UNCHANGED <<expiry, phase, current_stage, raised, job_scope, execution_result>>

\* Mutant of EnterStage: the wait is bounded by the time that was left before
\* the stage's extension.
EnterStageLateExtension(p, d, first) ==
    /\ deadline' = d
    /\ UNCHANGED execution_result
    /\ IF TimeLeft(d, now) = 0
       THEN /\ current_stage' = current_stage
            /\ HandleException(p, TimeoutError, "deadline")
       ELSE /\ current_stage' = StageOfPhase(p)
            /\ phase' = p
            /\ expiry' = {now + TimeLeft(deadline, now)}
            /\ pc' = first
            /\ Log
            /\ UNCHANGED <<sent, raised, job_scope>>

\* asyncio.wait_for(stage body, time_left) for block p, the deadline being d
\* by then.  With no time left the body is cancelled before it runs, so
\* _enter_stage is not reached; otherwise the body runs to its first await.
EnterStage(p, d, first) ==
    /\ deadline' = d
    /\ UNCHANGED execution_result
    /\ IF TimeLeft(d, now) = 0
       THEN /\ current_stage' = current_stage
            /\ HandleException(p, TimeoutError, "deadline")
       ELSE /\ current_stage' = StageOfPhase(p)
            /\ phase' = p
            /\ expiry' = {now + TimeLeft(d, now)}
            /\ pc' = first
            /\ Log
            /\ UNCHANGED <<sent, raised, job_scope>>

----------------------------------------------------------------------------
\* Initial state: a constructed JobDriver, execute not yet called.

NotRaised ==
    [kind |-> "none", reason |-> "-", message |-> "-", phase |-> "none",
     cause |-> "none", thrown |-> "none"]

Init ==
    /\ pc = "init"
    /\ now = 0
    /\ deadline = 0
    /\ expiry = {}
    /\ phase = "none"
    /\ current_stage = "unknown"
    /\ specs = {}
    /\ request = {}
    /\ sent = <<>>
    /\ raised = NotRaised
    /\ client = "new"
    /\ startup_time_limit \in Limits
    /\ debug_no_gpu \in BOOLEAN
    /\ outputs_type \in {"str", "bytes"}
    /\ is_streaming_job \in BOOLEAN
    /\ executor_certificate = {}
    /\ execution_result = {}
    /\ job_scope = FALSE
    /\ clean_calls = 0
    /\ clean_error = FALSE
    /\ calls = <<>>
    /\ stages_since = {}
    /\ outcome = "running"

\* What no step of a stage body changes.
frame == <<now, client, clean_calls, clean_error, outcome, config>>

\* The same, and the instant the startup block was left.
stage_frame == <<frame, stages_since>>

----------------------------------------------------------------------------
\* execute and the startup block of _execute

\* "async with self.miner_client" is entered; _execute sets the deadline to
\* the startup time limit, opens the startup timeout scope and the startup
\* stage runs to its first await.
EnterClient ==
    /\ pc = "init"
    /\ client' = "open"
    /\ deadline' = SetTimeout(now, startup_time_limit)
    /\ expiry' = {now + TimeLeft(deadline', now)}
    /\ phase' = "startup"
    /\ current_stage' = "executor_startup"
    /\ pc' = IF debug_no_gpu THEN "cve_check" ELSE "get_machine_specs"
    /\ Log
    /\ UNCHANGED <<now, specs, request, sent, raised, executor_certificate,
                   execution_result, job_scope, clean_calls, clean_error,
                   stages_since, outcome, config>>

GetMachineSpecs ==
    /\ pc = "get_machine_specs"
    /\ UNCHANGED <<stage_frame, deadline, request, executor_certificate>>
    /\ \/ /\ specs' = {"machine specs"}
          /\ Goto("cve_check")
          /\ UNCHANGED sent
       \/ /\ \E e \in Failures : Raise(e)
          /\ UNCHANGED specs

\* The security checks raise what CveCheck and NvidiaCheck say; a check that
\* raises nothing lets the stage go on.
GateStep(e, next) ==
    IF e = NoException
    THEN Goto(next) /\ UNCHANGED sent
    ELSE /\ UNCHANGED <<current_stage, execution_result>>
         /\ HandleException(phase, e, "driver")

RunCveCheck ==
    /\ pc = "cve_check"
    /\ UNCHANGED <<stage_frame, deadline, request, executor_certificate, specs>>
    /\ \/ \E return_code \in {0, 1}, found \in BOOLEAN :
            GateStep(CveCheck(return_code, found, outputs_type),
                     IF debug_no_gpu THEN "initial_msg" ELSE "nvidia_check")
       \/ \E e \in Failures : Raise(e)

RunNvidiaCheck ==
    /\ pc = "nvidia_check"
    /\ UNCHANGED <<stage_frame, deadline, request, executor_certificate, specs>>
    /\ \/ \E return_code \in {0, 1}, has_lines \in BOOLEAN, version \in Versions :
            GateStep(NvidiaCheck(return_code, has_lines, version, outputs_type),
                     "initial_msg")
       \/ \E e \in Failures : Raise(e)

\* await self.miner_client.initial_msg
InitialMsg ==
    /\ pc = "initial_msg"
    /\ UNCHANGED <<stage_frame, deadline, executor_certificate, specs>>
    /\ \/ /\ \E r \in InitialRequests : request' = {r}
          /\ Goto("prepare_initial")
          /\ UNCHANGED sent
       \/ /\ \E e \in Failures : Raise(e)
          /\ UNCHANGED request

\* await self.runner.prepare_initial(...); then send_executor_ready is called
PrepareInitial ==
    /\ pc = "prepare_initial"
    /\ UNCHANGED <<stage_frame, deadline, request, executor_certificate, specs>>
    /\ \/ /\ sent' = Append(sent, Msg("V0ExecutorReadyRequest"))
          /\ Goto("send_executor_ready")
       \/ \E e \in Failures : Raise(e)

\* Mutant of DownloadDeadline: the leeway is added to what is left of the
\* startup deadline.
DownloadDeadlineKeepingStartup(r, t) ==
    IF r.executor_timing # {}
    THEN ExtendTimeout(ExtendTimeout(deadline, The(r.executor_timing).allowed_leeway),
                       The(r.executor_timing).download_time_limit)
    ELSE SetTimeout(t, The(r.timeout_seconds))

\* Mutant of DownloadDeadline: timeout_seconds, when present, is the one
\* that counts.
DownloadDeadlineTimeoutFirst(r, t) ==
    IF r.timeout_seconds # {}
    THEN SetTimeout(t, The(r.timeout_seconds))
    ELSE ExtendTimeout(SetTimeout(t, The(r.executor_timing).allowed_leeway),
                       The(r.executor_timing).download_time_limit)

\* The deadline _execute sets once the startup block is left and extends for
\* the download stage; r is the initial request, t the clock.
DownloadDeadline(r, t) ==
    IF r.executor_timing # {}
    THEN ExtendTimeout(SetTimeout(t, The(r.executor_timing).allowed_leeway),
                       The(r.executor_timing).download_time_limit)
    ELSE SetTimeout(t, The(r.timeout_seconds))

\* Mutant of ExecutionDeadline: whether the job streams is read from the
\* initial request.
ExecutionDeadlineByRequest(r, d, streaming) ==
    IF r.executor_timing = {} THEN d
    ELSE IF r.streaming_details # {}
    THEN ExtendTimeout(ExtendTimeout(d, The(r.executor_timing).execution_time_limit),
                       The(r.executor_timing).streaming_start_time_limit)
    ELSE ExtendTimeout(d, The(r.executor_timing).execution_time_limit)

\* The deadline as extended for the execution stage.
ExecutionDeadline(r, d, streaming) ==
    IF r.executor_timing = {} THEN d
    ELSE IF streaming
    THEN ExtendTimeout(ExtendTimeout(d, The(r.executor_timing).execution_time_limit),
                       The(r.executor_timing).streaming_start_time_limit)
    ELSE ExtendTimeout(d, The(r.executor_timing).execution_time_limit)

\* Mutant of UploadDeadline: the upload stage gets its extension in
\* single-timeout mode too.
UploadDeadlineExtendingAlways(r, d) ==
    IF r.executor_timing = {} THEN ExtendTimeout(d, MaxLimit)
    ELSE ExtendTimeout(d, The(r.executor_timing).upload_time_limit)

\* Mutant of UploadDeadline: the upload limit is added twice.
UploadDeadlineDoubled(r, d) ==
    IF r.executor_timing = {} THEN d
    ELSE ExtendTimeout(ExtendTimeout(d, The(r.executor_timing).upload_time_limit),
                       The(r.executor_timing).upload_time_limit)

\* The deadline as extended for the upload stage.
UploadDeadline(r, d) ==
    IF r.executor_timing = {} THEN d
    ELSE ExtendTimeout(d, The(r.executor_timing).upload_time_limit)

\* Mutant of NoTimingError: the missing timing is blamed on the job.
NoTimingAsJobError == Exc("JobError", "timeout", NoTimingMsg)

\* Raised when the request carries no timing at all.
NoTimingError == Exc("HordeError", "generic_error", NoTimingMsg)

\* The initial request carries a way to time the job.
HasTiming(r) == r.executor_timing # {} \/ r.timeout_seconds # {}

\* send_executor_ready returned.  The rest of the startup stage generates the
\* streaming certificate; the startup block is left, the deadline is chosen
\* from the request and the download stage is entered.
SendExecutorReady ==
    /\ pc = "send_executor_ready"
    /\ UNCHANGED <<frame, request, specs>>
    /\ \/ /\ \E e \in Failures : Raise(e)
          /\ UNCHANGED <<deadline, executor_certificate, stages_since>>
       \/ LET r == The(request) IN
          IF r.streaming_details # {} /\ ~The(r.streaming_details).executor_ip
          THEN /\ UNCHANGED <<deadline, executor_certificate, current_stage,
                              execution_result, stages_since>>
               /\ HandleException("startup", Exc("Exception", "-", "AssertionError"),
                                  "driver")
          ELSE /\ executor_certificate' =
                     IF r.streaming_details # {} THEN {"certificate"} ELSE {}
               /\ stages_since' = {now}
               /\ IF HasTiming(r)
                  THEN EnterStage("download", DownloadDeadline(r, now), "full_payload")
                  ELSE /\ UNCHANGED <<deadline, current_stage, execution_result>>
                       /\ HandleException("startup", NoTimingError, "driver")

----------------------------------------------------------------------------
\* Download stage

\* Mutant of FullPayload: the full payload is awaited a second time.
FullPayloadTwice ==
    /\ pc = "full_payload"
    /\ UNCHANGED <<stage_frame, deadline, request, executor_certificate, specs>>
    /\ \/ /\ IF Len(SelectSeq(calls, LAMBDA c : c = "full_payload")) < 2
             THEN Goto("full_payload")
             ELSE Goto("prepare_full")
          /\ UNCHANGED sent
       \/ \E e \in Failures : Raise(e)

\* await self.miner_client.full_payload
FullPayload ==
    /\ pc = "full_payload"
    /\ UNCHANGED <<stage_frame, deadline, request, executor_certificate, specs>>
    /\ \/ Goto("prepare_full") /\ UNCHANGED sent
       \/ \E e \in Failures : Raise(e)

\* Mutant of PrepareFull: VolumesReady is announced before the download.
PrepareFullAnnouncingVolumes ==
    /\ pc = "prepare_full"
    /\ UNCHANGED <<stage_frame, deadline, request, executor_certificate, specs>>
    /\ \/ /\ sent' = Append(sent, Msg("V0VolumesReadyRequest"))
          /\ Goto("download_volume")
       \/ \E e \in Failures : Raise(e)

PrepareFull ==
    /\ pc = "prepare_full"
    /\ UNCHANGED <<stage_frame, deadline, request, executor_certificate, specs>>
    /\ \/ Goto("download_volume") /\ UNCHANGED sent
       \/ \E e \in Failures : Raise(e)

\* Mutant of DownloadVolume: the stage goes on without sending VolumesReady.
DownloadVolumeWithoutReady ==
    /\ pc = "download_volume"
    /\ UNCHANGED <<stage_frame, deadline, request, executor_certificate, specs>>
    /\ \/ Goto("send_volumes_ready") /\ UNCHANGED sent
       \/ \E e \in Failures : Raise(e)

\* await self.runner.download_volume(); then send_volumes_ready is called
DownloadVolume ==
    /\ pc = "download_volume"
    /\ UNCHANGED <<stage_frame, deadline, request, executor_certificate, specs>>
    /\ \/ /\ sent' = Append(sent, Msg("V0VolumesReadyRequest"))
          /\ Goto("send_volumes_ready")
       \/ \E e \in Failures : Raise(e)

\* send_volumes_ready returned: the download stage is over, the deadline is
\* extended and the execution stage is entered.
SendVolumesReady ==
    /\ pc = "send_volumes_ready"
    /\ UNCHANGED <<stage_frame, request, executor_certificate, specs>>
    /\ \/ /\ \E e \in Failures : Raise(e)
          /\ UNCHANGED deadline
       \/ EnterStage("execution",
                     ExecutionDeadline(The(request), deadline, is_streaming_job),
                     "start_job")

----------------------------------------------------------------------------
\* Execution stage

ExecutionResults == [return_code : {0, 1}, timed_out : BOOLEAN]

\* Mutant of FailIfExecutionUnsuccessful: timed_out is not looked at.
FailIfExecutionUnsuccessfulIgnoringTimeout(result) ==
    IF result = {} THEN Exc("Exception", "-", "AssertionError")
    ELSE IF The(result).return_code # 0
    THEN Exc("JobError", "nonzero_return_code",
             "Job container exited with non-zero exit code")
    ELSE NoException

\* Mutant of FailIfExecutionUnsuccessful: the return code is looked at
\* before timed_out.
FailIfExecutionUnsuccessfulCodeFirst(result) ==
    IF result = {} THEN Exc("Exception", "-", "AssertionError")
    ELSE IF The(result).return_code # 0
    THEN Exc("JobError", "nonzero_return_code",
             "Job container exited with non-zero exit code")
    ELSE IF The(result).timed_out
    THEN Exc("JobError", "timeout", "Job container timed out during execution")
    ELSE NoException

\* fail_if_execution_unsuccessful on runner.execution_result
FailIfExecutionUnsuccessful(result) ==
    IF result = {} THEN Exc("Exception", "-", "AssertionError")
    ELSE IF The(result).timed_out
    THEN Exc("JobError", "timeout", "Job container timed out during execution")
    ELSE IF The(result).return_code # 0
    THEN Exc("JobError", "nonzero_return_code",
             "Job container exited with non-zero exit code")
    ELSE NoException

\* Mutant of StartJob: a streaming job does not announce itself.
StartJobWithoutStreamingReady ==
    /\ pc = "start_job"
    /\ UNCHANGED <<stage_frame, deadline, request, executor_certificate, specs>>
    /\ \/ \E e \in Failures : Raise(e)
       \/ /\ job_scope' = TRUE
          /\ pc' = "job_exit"
          /\ Log
          /\ UNCHANGED <<current_stage, execution_result, sent, raised, expiry,
                         phase>>

\* Mutant of StartJob: the certificate is sent without looking whether there
\* is one.
StartJobWithoutCertificateCheck ==
    /\ pc = "start_job"
    /\ UNCHANGED <<stage_frame, deadline, request, executor_certificate, specs>>
    /\ \/ \E e \in Failures : Raise(e)
       \/ /\ UNCHANGED <<current_stage, execution_result>>
          /\ IF ~is_streaming_job
             THEN /\ job_scope' = TRUE
                  /\ pc' = "job_exit"
                  /\ Log
                  /\ UNCHANGED <<sent, raised, expiry, phase>>
             ELSE /\ job_scope' = TRUE
                  /\ sent' = Append(sent, Msg("V0StreamingJobReadyRequest"))
                  /\ pc' = "send_streaming_job_ready"
                  /\ Log
                  /\ UNCHANGED <<raised, expiry, phase>>

\* runner.start_job() was entered: the container is live.  A streaming job
\* sends its certificate from inside the scope; otherwise the scope is left
\* at once, which waits for the container.
StartJob ==
    /\ pc = "start_job"
    /\ UNCHANGED <<stage_frame, deadline, request, executor_certificate, specs>>
    /\ \/ \E e \in Failures : Raise(e)
       \/ /\ UNCHANGED <<current_stage, execution_result>>
          /\ IF ~is_streaming_job
             THEN /\ job_scope' = TRUE
                  /\ pc' = "job_exit"
                  /\ Log
                  /\ UNCHANGED <<sent, raised, expiry, phase>>
             ELSE IF executor_certificate = {}
             THEN HandleException("execution",
                                  Exc("Exception", "-", "AssertionError"), "driver")
             ELSE /\ job_scope' = TRUE
                  /\ sent' = Append(sent, Msg("V0StreamingJobReadyRequest"))
                  /\ pc' = "send_streaming_job_ready"
                  /\ Log
                  /\ UNCHANGED <<raised, expiry, phase>>

SendStreamingJobReady ==
    /\ pc = "send_streaming_job_ready"
    /\ UNCHANGED <<stage_frame, deadline, request, executor_certificate, specs>>
    /\ \/ Goto("job_exit") /\ UNCHANGED sent
       \/ \E e \in Failures : Raise(e)

\* The start_job scope was left: the runner has set execution_result (or,
\* against its contract, has not).  The result is inspected and
\* send_execution_done is called.
JobExit ==
    /\ pc = "job_exit"
    /\ UNCHANGED <<stage_frame, deadline, request, executor_certificate, specs>>
    /\ \/ \E e \in Failures : Raise(e)
       \/ /\ \E result \in {{}} \cup {{x} : x \in ExecutionResults} :
                execution_result' = result
          /\ UNCHANGED current_stage
          /\ IF FailIfExecutionUnsuccessful(execution_result') # NoException
             THEN HandleException("execution",
                      FailIfExecutionUnsuccessful(execution_result'), "driver")
             ELSE /\ job_scope' = FALSE
                  /\ sent' = Append(sent, Msg("V0ExecutionDoneRequest"))
                  /\ pc' = "send_execution_done"
                  /\ Log
                  /\ UNCHANGED <<raised, expiry, phase>>

\* send_execution_done returned: the execution stage is over, the deadline
\* is extended and the upload stage is entered.
SendExecutionDone ==
    /\ pc = "send_execution_done"
    /\ UNCHANGED <<stage_frame, request, executor_certificate, specs>>
    /\ \/ /\ \E e \in Failures : Raise(e)
          /\ UNCHANGED deadline
       \/ EnterStage("upload", UploadDeadline(The(request), deadline),
                     "upload_results")

----------------------------------------------------------------------------
\* Upload stage

\* Mutant of UploadResults: the result is sent as the runner made it,
\* without the machine specs.
UploadResultsWithoutSpecs ==
    /\ pc = "upload_results"
    /\ UNCHANGED <<stage_frame, deadline, request, executor_certificate, specs>>
    /\ \/ /\ sent' = Append(sent, JobFinishedMsg({}))
          /\ Goto("send_result")
       \/ \E e \in Failures : Raise(e)

\* Mutant of UploadResults: once the upload is done the driver cleans up,
\* reporting nothing.
UploadResultsThenClean ==
    /\ pc = "upload_results"
    /\ UNCHANGED <<now, client, clean_error, outcome, config, stages_since,
                   deadline, request, executor_certificate, specs>>
    /\ \/ /\ clean_calls' = clean_calls + 1
          /\ pc' = "clean"
          /\ Log
          /\ expiry' = {}
          /\ UNCHANGED <<sent, raised, phase, current_stage, job_scope,
                         execution_result>>
       \/ /\ \E e \in Failures : Raise(e)
          /\ UNCHANGED clean_calls

\* await self.runner.upload_results(); the result is stamped with the specs
\* and send_result is called.
UploadResults ==
    /\ pc = "upload_results"
    /\ UNCHANGED <<stage_frame, deadline, request, executor_certificate, specs>>
    /\ \/ /\ sent' = Append(sent, JobFinishedMsg(specs))
          /\ Goto("send_result")
       \/ \E e \in Failures : Raise(e)

\* Mutant of Finally: clean is called after a run that went through only.
CleanAfterSuccessOnly ==
    /\ clean_calls' = IF raised.kind = "none" THEN clean_calls + 1 ELSE clean_calls
    /\ pc' = "clean"
    /\ Log

\* execute's finally block: runner.clean() is called and awaited.
Finally ==
    /\ clean_calls' = clean_calls + 1
    /\ pc' = "clean"
    /\ Log

\* send_result returned: _execute is over and execute goes to its finally
\* block.
SendResult ==
    /\ pc = "send_result"
    /\ UNCHANGED <<now, client, config, deadline, request, executor_certificate,
                   specs, clean_error, stages_since>>
    /\ \/ /\ Finally
          /\ expiry' = {}
          /\ UNCHANGED <<sent, raised, phase, current_stage, job_scope,
                         execution_result, outcome>>
       \/ /\ \E e \in Failures : Raise(e)
          /\ UNCHANGED <<clean_calls, outcome>>

----------------------------------------------------------------------------
\* The end of execute

\* The failure message's send returned, or raised: in both cases the finally
\* block runs next; an exception raised in a handler leaves execute.
HandlerDone(at) ==
    /\ pc = at
    /\ Finally
    /\ \/ UNCHANGED outcome
       \/ outcome' = "raised"
    /\ UNCHANGED <<now, client, config, deadline, request, executor_certificate,
                   specs, sent, raised, phase, current_stage, job_scope,
                   execution_result, expiry, clean_error, stages_since>>

\* Mutant of SendJobFailed: after a first failed upload the driver tries the
\* upload again.
SendJobFailedThenRetry ==
    IF /\ pc = "send_job_failed"
       /\ Len(SelectSeq(calls, LAMBDA c : c = "upload_results")) = 1
    THEN /\ pc' = "upload_results"
         /\ Log
         /\ UNCHANGED <<now, client, config, deadline, request,
                        executor_certificate, specs, sent, raised, phase,
                        current_stage, job_scope, execution_result, expiry,
                        clean_error, stages_since, clean_calls, outcome>>
    ELSE HandlerDone("send_job_failed")

\* Mutant of SendHordeFailed: a send that raises is reported by another
\* HordeFailed.
SendHordeFailedReportingAgain ==
    /\ pc = "send_horde_failed"
    /\ Finally
    /\ \/ UNCHANGED <<outcome, sent>>
       \/ /\ outcome' = "raised"
          /\ sent' = Append(sent, HordeFailedMsg(
                         Exc("HordeError", "uncaught_exception", "send failed"),
                         current_stage))
    /\ UNCHANGED <<now, client, config, deadline, request, executor_certificate,
                   specs, raised, phase, current_stage, job_scope,
                   execution_result, expiry, clean_error, stages_since>>

SendJobFailed == HandlerDone("send_job_failed")

SendHordeFailed == HandlerDone("send_horde_failed")

\* Mutant of Clean: an exception of runner.clean() leaves execute.
CleanPropagating ==
    /\ pc = "clean"
    /\ pc' = "close_client"
    /\ Log
    /\ clean_error' \in BOOLEAN
    /\ outcome' = IF clean_error' THEN "raised" ELSE outcome
    /\ UNCHANGED <<now, client, config, deadline, request, executor_certificate,
                   specs, sent, raised, phase, current_stage, job_scope,
                   execution_result, expiry, clean_calls, stages_since>>

\* runner.clean() returned, or raised an exception that was logged: in both
\* cases the miner client scope is left next.
Clean ==
    /\ pc = "clean"
    /\ pc' = "close_client"
    /\ Log
    /\ clean_error' \in BOOLEAN
    /\ UNCHANGED <<now, client, config, deadline, request, executor_certificate,
                   specs, sent, raised, phase, current_stage, job_scope,
                   execution_result, expiry, clean_calls, outcome, stages_since>>

\* Mutant of CloseClient: the client is closed after a run that went through
\* only.
CloseClientOnSuccessOnly ==
    /\ pc = "close_client"
    /\ client' = IF raised.kind = "none" THEN "closed" ELSE client
    /\ pc' = "done"
    /\ outcome' = IF outcome = "running" THEN "returned" ELSE outcome
    /\ UNCHANGED <<now, config, deadline, request, executor_certificate,
                   specs, sent, raised, phase, current_stage, job_scope,
                   execution_result, expiry, clean_calls, clean_error, calls,
                   stages_since>>

\* The miner client's __aexit__ returned: execute is over.
CloseClient ==
    /\ pc = "close_client"
    /\ client' = "closed"
    /\ pc' = "done"
    /\ outcome' = IF outcome = "running" THEN "returned" ELSE outcome
    /\ UNCHANGED <<now, config, deadline, request, executor_certificate,
                   specs, sent, raised, phase, current_stage, job_scope,
                   execution_result, expiry, clean_calls, clean_error, calls,
                   stages_since>>

----------------------------------------------------------------------------
\* Time

Suspended == pc \notin {"init", "done"}

\* The clock advances while the task is suspended.  Inside a timeout scope
\* it cannot pass the scope's expiry with the task still suspended there.
\* Outside one the clock is followed until it has passed the deadline: from
\* then on no time is left, whatever the clock shows.
Tick ==
    /\ Suspended
    /\ IF expiry = {} THEN now <= deadline ELSE now < The(expiry)
    /\ now' = now + 1
    /\ UNCHANGED <<pc, deadline, expiry, phase, current_stage, specs, request,
                   sent, raised, client, config, executor_certificate,
                   execution_result, job_scope, clean_calls, clean_error,
                   calls, stages_since, outcome>>

\* Mutant of DeadlineFire: only the startup block has a timeout scope.
DeadlineFireInStartupOnly ==
    /\ Suspended
    /\ phase = "startup"
    /\ \E x \in expiry : now >= x
    /\ UNCHANGED <<current_stage, execution_result>>
    /\ HandleException(phase, TimeoutError, "deadline")
    /\ UNCHANGED <<stage_frame, deadline, request, executor_certificate, specs>>

\* The timeout scope expires while the task is suspended inside it: the
\* pending await is cancelled and the scope raises TimeoutError.
DeadlineFire ==
    /\ Suspended
    /\ \E x \in expiry : now >= x
    /\ UNCHANGED <<current_stage, execution_result>>
    /\ HandleException(phase, TimeoutError, "deadline")
    /\ UNCHANGED <<stage_frame, deadline, request, executor_certificate, specs>>

----------------------------------------------------------------------------
Next ==
    \/ EnterClient
    \/ GetMachineSpecs
    \/ RunCveCheck
    \/ RunNvidiaCheck
    \/ InitialMsg
    \/ PrepareInitial
    \/ SendExecutorReady
    \/ FullPayload
    \/ PrepareFull
    \/ DownloadVolume
    \/ SendVolumesReady
    \/ StartJob
    \/ SendStreamingJobReady
    \/ JobExit
    \/ SendExecutionDone
    \/ UploadResults
    \/ SendResult
    \/ SendJobFailed
    \/ SendHordeFailed
    \/ Clean
    \/ CloseClient
    \/ Tick
    \/ DeadlineFire

Spec == Init /\ [][Next]_vars

\* The driver task and the event loop's timer run whenever they can; a
\* collaborator awaited inside a stage may never answer.  The failure sends,
\* runner.clean() and the client's close are taken to return.
FairSpec ==
    /\ Spec
    /\ WF_vars(EnterClient)
    /\ WF_vars(Tick)
    /\ WF_vars(DeadlineFire)
    /\ WF_vars(SendJobFailed)
    /\ WF_vars(SendHordeFailed)
    /\ WF_vars(Clean)
    /\ WF_vars(CloseClient)

----------------------------------------------------------------------------
\* Vocabulary of the properties

TerminalTypes ==
    {"V0JobFinishedRequest", "V0JobFailedRequest", "V0HordeFailedRequest"}

FailureTypes == {"V0JobFailedRequest", "V0HordeFailedRequest"}

Types(msgs) == [i \in 1..Len(msgs) |-> msgs[i].type]

IsTransition(m) == m.type \notin FailureTypes

\* The stage-transition messages sent so far, in order.
Transitions == Types(SelectSeq(sent, IsTransition))

IsPrefix(a, b) == Len(a) <= Len(b) /\ a = SubSeq(b, 1, Len(a))

Positions(type) == {i \in 1..Len(sent) : sent[i].type = type}

Finished == pc = "done"

\* The run went through without any exception.
Succeeded == Finished /\ raised.kind = "none"

\* The timeout scope of block p ran out.
Overran(p) == raised.cause = "deadline" /\ raised.phase = p

----------------------------------------------------------------------------
\* C1: in every run exactly one terminal message (JobFinished, JobFailed or
\* HordeFailed) is sent and it is the last outbound message: nothing follows
\* a terminal message, and a finished run has sent one.
C1_OneTerminalMessageLast ==
    /\ \A i \in 1..Len(sent) : sent[i].type \in TerminalTypes => i = Len(sent)
    /\ Finished => Len(sent) > 0 /\ sent[Len(sent)].type \in TerminalTypes

\* C2, as claimed: the stage-transition messages sent are a prefix of
\* ExecutorReady, StreamingJobReady (optional), VolumesReady, ExecutionDone,
\* JobFinished.
C2_PrefixStreamingBeforeVolumes ==
    \/ IsPrefix(Transitions,
                <<"V0ExecutorReadyRequest", "V0StreamingJobReadyRequest",
                  "V0VolumesReadyRequest", "V0ExecutionDoneRequest",
                  "V0JobFinishedRequest">>)
    \/ IsPrefix(Transitions,
                <<"V0ExecutorReadyRequest", "V0VolumesReadyRequest",
                  "V0ExecutionDoneRequest", "V0JobFinishedRequest">>)

\* C2, amended: the stage-transition messages sent are a prefix of
\* ExecutorReady, VolumesReady, StreamingJobReady (optional), ExecutionDone,
\* JobFinished.
C2_PrefixStreamingAfterVolumes ==
    \/ IsPrefix(Transitions,
                <<"V0ExecutorReadyRequest", "V0VolumesReadyRequest",
                  "V0StreamingJobReadyRequest", "V0ExecutionDoneRequest",
                  "V0JobFinishedRequest">>)
    \/ IsPrefix(Transitions,
                <<"V0ExecutorReadyRequest", "V0VolumesReadyRequest",
                  "V0ExecutionDoneRequest", "V0JobFinishedRequest">>)

\* A streaming job has sent StreamingJobReady.
C2_Witness == Positions("V0StreamingJobReadyRequest") # {}

\* C3: a non-streaming run in which every stage completed in time and the
\* job exited with code 0 has sent exactly ExecutorReady, VolumesReady,
\* ExecutionDone, JobFinished.
C3_HappyPathSequence ==
    Succeeded /\ ~is_streaming_job =>
        Types(sent) = <<"V0ExecutorReadyRequest", "V0VolumesReadyRequest",
                        "V0ExecutionDoneRequest", "V0JobFinishedRequest">>

C3_Witness ==
    /\ Succeeded
    /\ ~is_streaming_job
    /\ execution_result = {[return_code |-> 0, timed_out |-> FALSE]}

\* C4: a streaming job that succeeds has sent exactly one StreamingJobReady,
\* after VolumesReady and before ExecutionDone.
C4_StreamingReadyBetween ==
    Succeeded /\ is_streaming_job =>
        /\ Cardinality(Positions("V0StreamingJobReadyRequest")) = 1
        /\ \A s \in Positions("V0StreamingJobReadyRequest") :
              /\ \E v \in Positions("V0VolumesReadyRequest") : v < s
              /\ \E d \in Positions("V0ExecutionDoneRequest") : s < d

C4_Witness == Succeeded /\ is_streaming_job

\* C5: runner.clean() is called exactly once per run, on every exit path:
\* never twice, and once by the time execute leaves its finally block.
C5_CleanExactlyOnce ==
    /\ clean_calls <= 1
    /\ pc \in {"clean", "close_client", "done"} => clean_calls = 1
    /\ pc \notin {"clean", "close_client", "done"} => clean_calls = 0

\* A run that ended on a stage timeout has cleaned up.
C5_Witness ==
    /\ Finished
    /\ clean_calls = 1
    /\ raised.kind = "JobError"
    /\ raised.cause = "deadline"

HasTerminal == \E i \in 1..Len(sent) : sent[i].type \in TerminalTypes

LastSent == sent[Len(sent)]

\* C6: every run comes to a terminal message and to runner.clean(), also
\* when a collaborator awaited inside a stage never answers: the deadline
\* cancels the stage.  (Under FairSpec.)
C6_EveryRunEndsAndCleans == <>(HasTerminal /\ clean_calls = 1 /\ Finished)

\* The deadline cancelled a stage that was waiting for its collaborator.
C6_Witness ==
    /\ Finished
    /\ raised.cause = "deadline"
    /\ raised.phase \in {"download", "execution", "upload"}
    /\ sent[Len(sent)].type \in FailureTypes
    /\ clean_calls = 1

\* C7: the stage a failure message reports (stage of JobFailed, stage entry
\* of HordeFailed's context) is the stage of the block in which the failure
\* occurred, also for a deadline overrun met at the block's wait_for.
C7_FailureStageIsActiveStage ==
    \A i \in 1..Len(sent) :
        sent[i].type \in FailureTypes => sent[i].stage = StageOfPhase(raised.phase)

\* C8: a startup stage that outlasts startup_time_limit ends the run with a
\* HordeFailed saying "Timed out waiting for initial job details from
\* miner", and no JobFailed is sent.
C8_StartupTimeoutIsHordeFailure ==
    Overran("startup") =>
        /\ Len(sent) > 0
        /\ LastSent.type = "V0HordeFailedRequest"
        /\ LastSent.message = TimedOutMsg
        /\ Positions("V0JobFailedRequest") = {}

C8_Witness == Finished /\ Overran("startup") /\ now > 0

\* C9: a deadline overrun in the download, execution or upload block ends
\* the run with a JobFailed of reason TIMEOUT whose stage is
\* VOLUME_DOWNLOAD, EXECUTION or RESULT_UPLOAD respectively, and with no
\* HordeFailed.
C9_StageTimeoutIsJobTimeout ==
    \A p \in {"download", "execution", "upload"} :
        Overran(p) =>
            /\ Len(sent) > 0
            /\ LastSent.type = "V0JobFailedRequest"
            /\ LastSent.reason = "timeout"
            /\ LastSent.stage = StageOfPhase(p)
            /\ Positions("V0HordeFailedRequest") = {}

\* The startup stage itself failed: an await in it raised or was cancelled,
\* or its assertion on the streaming details failed.
StartupFailed ==
    /\ raised.phase = "startup"
    /\ \/ raised.cause \in {"collaborator", "deadline"}
       \/ raised.message = "AssertionError"

\* C10: with a request that carries neither timing details nor
\* timeout_seconds the download stage is never entered and full_payload is
\* never awaited, and a run whose startup stage went through ends with a
\* HordeFailed "No timing received: ..." whose stage is EXECUTOR_STARTUP.
C10_NoTimingIsHordeFailure ==
    \A r \in request :
        ~HasTiming(r) =>
            /\ phase = "startup"
            /\ current_stage = "executor_startup"
            /\ pc # "full_payload"
            /\ Finished /\ ~StartupFailed =>
                  /\ LastSent.type = "V0HordeFailedRequest"
                  /\ LastSent.message = NoTimingMsg
                  /\ LastSent.stage = "executor_startup"
                  /\ Positions("V0JobFailedRequest") = {}

C10_Witness ==
    /\ Finished
    /\ \E r \in request : ~HasTiming(r)
    /\ ~StartupFailed
    /\ Positions("V0ExecutorReadyRequest") # {}

----------------------------------------------------------------------------
\* Vocabulary of the properties that speak of the operations awaited

FailureSends == {"send_job_failed", "send_horde_failed"}

\* BaseJobRunner's operations the driver awaits, clean apart; job_exit is the
\* exit of the start_job scope.
RunnerOps ==
    {"prepare_initial", "prepare_full", "download_volume", "start_job",
     "job_exit", "upload_results"}

Called(op) == \E i \in 1..Len(calls) : calls[i] = op

\* An exception reached execute's handlers as the task resumed from op.
FailedIn(op) ==
    \E i \in 2..Len(calls) : calls[i] \in FailureSends /\ calls[i - 1] = op

\* The last of the security checks this run makes.
LastCheck == IF debug_no_gpu THEN "cve_check" ELSE "nvidia_check"

\* A security check itself rejected the machine.
CheckFailed ==
    /\ raised.cause = "driver"
    /\ FailedIn("cve_check") \/ FailedIn("nvidia_check")

----------------------------------------------------------------------------
\* C11: when the initial request has timing details, the deadline chosen on
\* leaving the startup block is allowed_leeway (extended at once by
\* download_time_limit for the download stage), whatever timeout_seconds
\* says; timeout_seconds is the deadline only when timing details are absent.
C11_TimingDetailsTakePrecedence ==
    [][pc = "send_executor_ready" /\ phase' = "download" =>
          \A r \in request :
              deadline' =
                  IF r.executor_timing # {}
                  THEN now + The(r.executor_timing).allowed_leeway
                           + The(r.executor_timing).download_time_limit
                  ELSE now + The(r.timeout_seconds)]_vars

\* Both are present and the download stage has more time left than
\* timeout_seconds would have given it.
C11_Witness ==
    /\ pc = "full_payload"
    /\ \E r \in request :
          /\ r.executor_timing # {}
          /\ r.timeout_seconds = {MaxLimit}
          /\ deadline - now > MaxLimit

\* C12: initial_msg, the runner's operations and send_executor_ready are
\* awaited only after the last security check; a run in which a check
\* rejected the machine ends with a HordeFailed of reason
\* security_check_failed; the NVIDIA probe is not run after a failed CVE
\* probe.
C12_GateBeforeJobWork ==
    /\ \A i \in 1..Len(calls) :
          calls[i] \in RunnerOps \cup {"initial_msg", "send_executor_ready"} =>
              \E j \in 1..(i - 1) : calls[j] = LastCheck
    /\ FailedIn("cve_check") => ~Called("nvidia_check")
    /\ CheckFailed =>
          /\ LastSent.type = "V0HordeFailedRequest"
          /\ LastSent.reason = "security_check_failed"

\* C13: when runner.download_volume raises JobError(download_failed) the
\* messages sent are exactly ExecutorReady and a JobFailed of reason
\* download_failed, stage volume_download and no execution outputs;
\* VolumesReady is not sent and the job container is not started.
C13_DownloadFailure ==
    FailedIn("download_volume") /\ raised.reason = "download_failed" =>
        /\ Types(sent) = <<"V0ExecutorReadyRequest", "V0JobFailedRequest">>
        /\ LastSent.reason = "download_failed"
        /\ LastSent.stage = "volume_download"
        /\ LastSent.exit_status = {}
        /\ ~Called("start_job")

C13_Witness ==
    /\ Finished
    /\ FailedIn("download_volume")
    /\ raised.reason = "download_failed"

\* runner.upload_results raised JobError(upload_failed).
UploadFailed == FailedIn("upload_results") /\ raised.reason = "upload_failed"

\* The JobFailed that reports a failed upload after a successful execution.
IsUploadFailure(m) ==
    /\ m.type = "V0JobFailedRequest"
    /\ m.reason = "upload_failed"
    /\ m.stage = "result_upload"
    /\ m.exit_status = {0}

\* C14, as claimed: when runner.upload_results raises
\* JobError(upload_failed) the messages sent are exactly ExecutorReady,
\* VolumesReady, ExecutionDone and a JobFailed of reason upload_failed, stage
\* result_upload and exit status 0.
C14_UploadFailureFourMessages ==
    UploadFailed =>
        /\ Types(sent) = <<"V0ExecutorReadyRequest", "V0VolumesReadyRequest",
                           "V0ExecutionDoneRequest", "V0JobFailedRequest">>
        /\ IsUploadFailure(LastSent)

\* C14, amended: the same for a job that is not a streaming job; a
\* streaming job has sent StreamingJobReady as well, between VolumesReady and
\* ExecutionDone.  JobFinished is sent in neither case.
C14_UploadFailureSequence ==
    UploadFailed =>
        /\ Types(sent) =
              IF is_streaming_job
              THEN <<"V0ExecutorReadyRequest", "V0VolumesReadyRequest",
                     "V0StreamingJobReadyRequest", "V0ExecutionDoneRequest",
                     "V0JobFailedRequest">>
              ELSE <<"V0ExecutorReadyRequest", "V0VolumesReadyRequest",
                     "V0ExecutionDoneRequest", "V0JobFailedRequest">>
        /\ IsUploadFailure(LastSent)

C14_Witness == Finished /\ UploadFailed /\ ~is_streaming_job

\* fail_if_execution_unsuccessful rejected the result the container left.
ExecutionRejected ==
    /\ raised.cause = "driver"
    /\ FailedIn("job_exit")
    /\ execution_result # {}

\* C15: a result with timed_out set fails the run with JobFailed of reason
\* timeout, also when its return code is not 0; any other result with a
\* return code that is not 0 fails it with reason nonzero_return_code.  In
\* both cases the stage reported is execution, neither ExecutionDone nor
\* JobFinished is sent and the upload stage is not entered.
C15_ExecutionResultVerdict ==
    ExecutionRejected =>
        /\ LastSent.type = "V0JobFailedRequest"
        /\ LastSent.reason =
              IF The(execution_result).timed_out THEN "timeout"
              ELSE "nonzero_return_code"
        /\ The(execution_result).timed_out \/ The(execution_result).return_code # 0
        /\ LastSent.stage = "execution"
        /\ Positions("V0ExecutionDoneRequest") = {}
        /\ Positions("V0JobFinishedRequest") = {}
        /\ current_stage = "execution"
        /\ ~Called("upload_results")

\* The container timed out and its return code is not 0 either.
C15_Witness ==
    /\ Finished
    /\ ExecutionRejected
    /\ execution_result = {[return_code |-> 1, timed_out |-> TRUE]}

\* C16: a JobFailed carries the exit status (with it stdout and stderr) of
\* runner.execution_result exactly when the runner holds a result at the
\* time of the failure: a failure in the startup or download block carries
\* none, a failure after the container scope was left carries the result's.
C16_ExitStatusIffResult ==
    \A i \in 1..Len(sent) :
        sent[i].type = "V0JobFailedRequest" =>
            /\ sent[i].exit_status = {r.return_code : r \in execution_result}
            /\ raised.phase \in {"startup", "download"} =>
                  sent[i].exit_status = {}
            /\ ExecutionRejected \/ Called("send_execution_done") =>
                  sent[i].exit_status # {}

\* A JobFailed that carries the exit status of a container that failed.
C16_Witness ==
    /\ Finished
    /\ LastSent.type = "V0JobFailedRequest"
    /\ LastSent.exit_status = {1}

\* C17: an exception other than a JobError thrown inside the pipeline (by a
\* collaborator or by the driver's own checks and assertions) ends the run
\* with a HordeFailed whose context names the current stage, and never with
\* a JobFailed.
C17_OtherExceptionIsHordeFailure ==
    /\ raised.cause \in {"collaborator", "driver"}
    /\ raised.thrown # "JobError"
    => /\ LastSent.type = "V0HordeFailedRequest"
       /\ LastSent.stage = current_stage
       /\ Positions("V0JobFailedRequest") = {}

\* C18: an exception of runner.clean() is swallowed: while clean is awaited
\* and after it raised, no message is sent and the way execute ends does not
\* change; a run that no handler's exception is leaving returns normally.
C18_CleanErrorSwallowed ==
    [][/\ pc = "clean" => sent' = sent /\ outcome' = outcome
       /\ pc = "close_client" /\ clean_error =>
             /\ sent' = sent
             /\ outcome = "running" /\ pc' = "done" => outcome' = "returned"
             /\ outcome # "running" => outcome' = outcome]_vars

\* clean raised after the terminal message; execute returned.
C18_Witness ==
    /\ Finished
    /\ clean_error
    /\ HasTerminal
    /\ outcome = "returned"

\* C19: the miner client is open whenever the task is suspended in an
\* await, those of initial_msg and full_payload among them, and it is closed
\* when execute is over, however the run ended.
C19_ClientScope ==
    /\ Finished => client = "closed"
    /\ Suspended => client = "open"
    /\ pc \in {"initial_msg", "full_payload"} => client = "open"

\* A run that failed after awaiting full_payload, whose clean raised too,
\* has closed the client.
C19_Witness ==
    /\ Finished
    /\ client = "closed"
    /\ Called("initial_msg") /\ Called("full_payload")
    /\ raised.kind # "none"
    /\ clean_error

StageIndex(stage) == CHOOSE i \in 1..Len(Stages) : Stages[i] = stage

\* C20: current_stage changes only to the next stage of unknown,
\* executor_startup, volume_download, execution, result_upload, and it
\* changes neither in the step that raises a failure nor after it.
C20_StageMovesForward ==
    [][/\ \/ current_stage' = current_stage
          \/ StageIndex(current_stage') = StageIndex(current_stage) + 1
       /\ raised.kind # "none" \/ raised' # raised =>
             current_stage' = current_stage]_vars

\* A run that failed in the last stage.
C20_Witness ==
    /\ Finished
    /\ current_stage = "result_upload"
    /\ raised.kind # "none"

\* The await of op returned and the task went on to await next.
Then(op, next) ==
    \E i \in 1..(Len(calls) - 1) : calls[i] = op /\ calls[i + 1] = next

Sent(type) == Positions(type) # {}

\* C21: ExecutorReady is sent only after prepare_initial returned,
\* VolumesReady only after download_volume returned, ExecutionDone only
\* after the start_job scope was left with a result of return code 0 that
\* did not time out, JobFinished only after upload_results returned.
C21_MessageAfterWork ==
    /\ Sent("V0ExecutorReadyRequest") =>
          Then("prepare_initial", "send_executor_ready")
    /\ Sent("V0VolumesReadyRequest") =>
          Then("download_volume", "send_volumes_ready")
    /\ Sent("V0ExecutionDoneRequest") =>
          /\ Then("job_exit", "send_execution_done")
          /\ ~job_scope
          /\ execution_result = {[return_code |-> 0, timed_out |-> FALSE]}
    /\ Sent("V0JobFinishedRequest") =>
          Then("upload_results", "send_result")

\* All four messages have been sent.
C21_Witness ==
    /\ pc = "send_result"
    /\ Sent("V0ExecutorReadyRequest") /\ Sent("V0VolumesReadyRequest")
    /\ Sent("V0ExecutionDoneRequest") /\ Sent("V0JobFinishedRequest")

\* C22: the volume_download stage is entered only after ExecutorReady was
\* sent, the execution stage only after VolumesReady was sent, the
\* result_upload stage only after ExecutionDone was sent; each send has
\* returned by then.
C22_StageAfterPredecessorMessage ==
    /\ StageIndex(current_stage) >= StageIndex("volume_download") =>
          /\ Sent("V0ExecutorReadyRequest")
          /\ Then("send_executor_ready", "full_payload")
    /\ StageIndex(current_stage) >= StageIndex("execution") =>
          /\ Sent("V0VolumesReadyRequest")
          /\ Then("send_volumes_ready", "start_job")
    /\ StageIndex(current_stage) >= StageIndex("result_upload") =>
          /\ Sent("V0ExecutionDoneRequest")
          /\ Then("send_execution_done", "upload_results")

\* The last stage has been entered.
C22_Witness == pc = "upload_results" /\ current_stage = "result_upload"

----------------------------------------------------------------------------
\* Vocabulary of the properties that speak of the time budget

StageBlocks == {"download", "execution", "upload"}

\* The task is waiting inside the timeout scope of a stage.
InStageWait == phase \in StageBlocks /\ expiry # {}

TimingMode(r) == r.executor_timing # {}

SingleTimeoutMode(r) == r.executor_timing = {} /\ r.timeout_seconds # {}

\* The limit the timing details t give block p of a job that streams or not.
OwnLimit(t, p, streaming) ==
    CASE p = "download"  -> t.download_time_limit
      [] p = "execution" -> t.execution_time_limit +
                            (IF streaming THEN t.streaming_start_time_limit ELSE 0)
      [] p = "upload"    -> t.upload_time_limit

\* C23: with timing details the deadline is extended by a stage's own limit
\* in the step that begins the stage's wait, so that the wait's timeout
\* scope expires at the extended deadline; the deadline changes in no other
\* step, neither during a stage's wait nor after the stage has ended.
C23_ExtensionBeforeWait ==
    /\ [](expiry # {} => expiry = {deadline})
    /\ [][/\ deadline' # deadline => phase' # phase
          /\ \A r \in request :
                TimingMode(r) /\ phase \in StageBlocks /\ phase' # phase =>
                    deadline' = deadline + OwnLimit(The(r.executor_timing),
                                                    phase', is_streaming_job)]_vars

\* The upload stage waits on nothing but its own extension.
C23_Witness ==
    /\ pc = "upload_results"
    /\ \E r \in request :
          /\ TimingMode(r)
          /\ The(r.executor_timing).upload_time_limit = MaxLimit
    /\ expiry = {deadline}
    /\ deadline - now = MaxLimit

\* C24: in single-timeout mode the deadline is timeout_seconds after the
\* instant the startup block was left, in every stage and until the run is
\* over: it is set once and never extended.
C24_SingleTimeoutOneBudget ==
    \A r \in request :
        SingleTimeoutMode(r) /\ stages_since # {} =>
            deadline = The(stages_since) + The(r.timeout_seconds)

\* The upload stage of a single-timeout job.
C24_Witness ==
    /\ pc = "upload_results"
    /\ \E r \in request : SingleTimeoutMode(r)

\* All that the timing details t allow the stages of a job together.
TotalBudget(t, streaming) ==
    t.allowed_leeway + OwnLimit(t, "download", streaming)
        + OwnLimit(t, "execution", streaming) + OwnLimit(t, "upload", streaming)

\* C25: with timing details, the time the run has spent since it left the
\* startup block, while it waits in the download, execution or upload
\* stage, is at most allowed_leeway + download_time_limit +
\* execution_time_limit + upload_time_limit (+ streaming_start_time_limit
\* for a streaming job).
C25_StageWaitsWithinBudget ==
    \A r \in request :
        TimingMode(r) /\ InStageWait =>
            now - The(stages_since)
                <= TotalBudget(The(r.executor_timing), is_streaming_job)

\* The upload stage has waited until the whole budget is used up.
C25_Witness ==
    /\ pc = "upload_results"
    /\ \E r \in request :
          /\ TimingMode(r)
          /\ TotalBudget(The(r.executor_timing), is_streaming_job) >= 2 * MaxLimit
          /\ now - The(stages_since)
                = TotalBudget(The(r.executor_timing), is_streaming_job)

\* C26: with timing details, from the step that begins the execution wait
\* on, the deadline is the one of the download stage plus
\* execution_time_limit, plus streaming_start_time_limit exactly when
\* runner.is_streaming_job holds.
C26_ExecutionExtension ==
    [][\A r \in request :
          TimingMode(r) /\ phase = "download" /\ phase' = "execution" =>
              deadline' = deadline + The(r.executor_timing).execution_time_limit
                  + (IF is_streaming_job
                     THEN The(r.executor_timing).streaming_start_time_limit
                     ELSE 0)]_vars

\* A job the runner says streams, though its request has no streaming
\* details, got the streaming start limit.
C26_Witness ==
    /\ phase = "execution"
    /\ is_streaming_job
    /\ \E r \in request :
          /\ TimingMode(r)
          /\ r.streaming_details = {}
          /\ The(r.executor_timing).streaming_start_time_limit = MaxLimit
          /\ deadline = The(stages_since) + The(r.executor_timing).allowed_leeway
                + The(r.executor_timing).download_time_limit
                + The(r.executor_timing).execution_time_limit + MaxLimit

----------------------------------------------------------------------------
\* How many times op was awaited.
Count(op) == Cardinality({i \in 1..Len(calls) : calls[i] = op})

\* What the startup stage awaits before initial_msg.
GateOps == {"get_machine_specs", "cve_check", "nvidia_check"}

\* The run ended in the startup stage before initial_msg was awaited.
FailedBeforeInitialMsg == \E op \in GateOps : FailedIn(op)

\* C27, as claimed: a run awaits initial_msg exactly once, in the startup
\* stage, and full_payload at most once, in the download stage; a run that
\* fails in the startup block, the timing selection included, never awaits
\* full_payload.
C27_ExactlyOneInitialMsg ==
    /\ Count("initial_msg") <= 1
    /\ Finished => Count("initial_msg") = 1
    /\ pc = "initial_msg" => current_stage = "executor_startup"
    /\ Count("full_payload") <= 1
    /\ pc = "full_payload" => current_stage = "volume_download"
    /\ raised.phase = "startup" => ~Called("full_payload")

\* C27, amended: initial_msg is awaited at most once: once in a run that
\* gets as far as awaiting it, not at all in a run that ends before (machine
\* specs, a security check, or the startup deadline during them).  The rest
\* as claimed.
C27_AtMostOneInitialMsg ==
    /\ Count("initial_msg") <= 1
    /\ Finished =>
          Count("initial_msg") = IF FailedBeforeInitialMsg THEN 0 ELSE 1
    /\ pc = "initial_msg" => current_stage = "executor_startup"
    /\ Count("full_payload") <= 1
    /\ pc = "full_payload" => current_stage = "volume_download"
    /\ raised.phase = "startup" => ~Called("full_payload")

\* A run that awaited both and failed later; one that failed in the timing
\* selection is C10's.
C27_Witness ==
    /\ Finished
    /\ Count("initial_msg") = 1
    /\ Count("full_payload") = 1
    /\ raised.phase = "download"

\* The first await of each stage body.
StageEntries == {"full_payload", "start_job", "upload_results"}

\* C28: no stage is entered twice and no operation of the runner is awaited
\* twice; once a failure has reached execute's handlers (a stage timeout, a
\* JobError, or anything else) only clean and the client's close follow.
C28_NoReentryNoRetry ==
    /\ \A op \in RunnerOps \cup StageEntries \cup {"clean"} : Count(op) <= 1
    /\ \A i \in 1..Len(calls) : \A j \in (i + 1)..Len(calls) :
          calls[i] \in FailureSends => calls[j] \in {"clean", "close_client"}

\* A run whose upload failed with a JobError and that is over.
C28_Witness ==
    /\ Finished
    /\ FailedIn("upload_results")
    /\ raised.thrown = "JobError"

\* C29: runner.clean() is awaited inside a timeout scope bounded by the
\* deadline, so that a clean outlasting the deadline is cancelled.
C29_CleanBoundedByDeadline == pc = "clean" => expiry # {}

\* C30: while the start_job scope is open no failure has been reported and
\* clean has not been called: an exception or a deadline met inside the
\* scope leaves the scope before the failure message is sent and before
\* runner.clean().
C30_ScopeLeftBeforeFailure ==
    job_scope =>
        /\ raised.kind = "none"
        /\ \A i \in 1..Len(sent) : sent[i].type \notin FailureTypes
        /\ clean_calls = 0
        /\ ~Called("clean")

\* The deadline fired while the container was awaited inside the scope; the
\* failure was sent and clean called with the scope closed.
C30_Witness ==
    /\ pc = "close_client"
    /\ Overran("execution")
    /\ FailedIn("job_exit")
    /\ ~job_scope
    /\ clean_calls = 1

\* C31: StreamingJobReady is sent only from inside the start_job scope, by
\* a job the runner says streams and that has an executor certificate; a
\* streaming job without a certificate fails its assertion inside the scope
\* and ends with a HordeFailed, no StreamingJobReady sent; a job that does
\* not stream never sends StreamingJobReady.
C31_StreamingReadyGuarded ==
    /\ Sent("V0StreamingJobReadyRequest") =>
          /\ is_streaming_job
          /\ executor_certificate # {}
          /\ Then("start_job", "send_streaming_job_ready")
    /\ pc = "send_streaming_job_ready" =>
          job_scope /\ LastSent.type = "V0StreamingJobReadyRequest"
    /\ is_streaming_job /\ executor_certificate = {} =>
          /\ pc \notin {"send_streaming_job_ready", "job_exit"}
          /\ raised.cause = "driver" /\ FailedIn("start_job") =>
                /\ LastSent.type = "V0HordeFailedRequest"
                /\ LastSent.message = "AssertionError"

\* A streaming job whose request had no streaming details came to the
\* assertion.
C31_Witness ==
    /\ Finished
    /\ is_streaming_job
    /\ executor_certificate = {}
    /\ raised.cause = "driver"
    /\ FailedIn("start_job")

\* C32: with DEBUG_NO_GPU_MODE neither get_machine_specs nor the NVIDIA
\* probe is awaited while the CVE probe is, and JobFinished carries no
\* specs; without it the specs are taken once, right before the CVE probe,
\* and JobFinished carries them.
C32_DebugNoGpuMode ==
    /\ pc # "init" => Called("cve_check") \/ pc = "get_machine_specs"
                         \/ FailedIn("get_machine_specs")
    /\ debug_no_gpu =>
          /\ ~Called("get_machine_specs")
          /\ ~Called("nvidia_check")
          /\ specs = {}
    /\ ~debug_no_gpu =>
          /\ Count("get_machine_specs") <= 1
          /\ Called("cve_check") =>
                calls[1] = "get_machine_specs" /\ calls[2] = "cve_check"
          /\ Called("initial_msg") => Then("cve_check", "nvidia_check")
          /\ Called("cve_check") => specs # {}
    /\ \A i \in 1..Len(sent) :
          sent[i].type = "V0JobFinishedRequest" => sent[i].specs = specs

\* A job result that carries the machine specs.
C32_Witness ==
    /\ pc = "send_result"
    /\ ~debug_no_gpu
    /\ LastSent.type = "V0JobFinishedRequest"
    /\ LastSent.specs # {}

----------------------------------------------------------------------------
\* What the probes of the security checks may report.
ProbeCodes == {0, 1}

IsSecurityFailure(e) == e.kind = "HordeError" /\ e.reason = "security_check_failed"

\* C33: when the CVE probe is awaited, whatever it reports, the check lets
\* the run go on exactly if the exit code is 0 and stdout holds the expected
\* line, and raises a HordeError of reason security_check_failed otherwise.
C33_CveCheckVerdict ==
    pc = "cve_check" =>
        \A return_code \in ProbeCodes, found \in BOOLEAN :
            LET e == CveCheck(return_code, found, outputs_type) IN
            /\ e = NoException <=> (return_code = 0 /\ found)
            /\ e # NoException => IsSecurityFailure(e)

\* C34: when the NVIDIA probe is awaited, whatever it reports, the check
\* raises a HordeError of reason security_check_failed for an exit code that
\* is not 0, for an empty stdout and for a version below 1.17.4, and lets
\* the run go on only for a version of at least 1.17.4.
C34_NvidiaCheckVerdict ==
    pc = "nvidia_check" =>
        \A return_code \in ProbeCodes, has_lines \in BOOLEAN,
           version \in Versions \ {<<>>} :
            LET e == NvidiaCheck(return_code, has_lines, version, outputs_type) IN
            /\ return_code # 0 => IsSecurityFailure(e)
            /\ ~has_lines => IsSecurityFailure(e)
            /\ ~VersionAtLeast(version, MinimumSafeVersion) => IsSecurityFailure(e)
            /\ e = NoException =>
                  /\ return_code = 0 /\ has_lines
                  /\ VersionAtLeast(version, MinimumSafeVersion)

\* The sends of the terminal messages.
TerminalSends == {"send_result", "send_job_failed", "send_horde_failed"}

\* C35: when runner.clean() is called a terminal message has been sent and
\* its send is over; when the miner client is closed clean has returned or
\* raised, and nothing was awaited in between.
C35_TerminalThenCleanThenClose ==
    /\ Called("clean") =>
          /\ HasTerminal
          /\ \E op \in TerminalSends : Then(op, "clean")
    /\ Called("close_client") => Then("clean", "close_client")
    /\ client = "closed" => Called("close_client")

\* A successful run: JobFinished, then clean, then the close.
C35_Witness ==
    /\ Finished
    /\ client = "closed"
    /\ Then("send_result", "clean")
    /\ Then("clean", "close_client")

\* C36: a TimeoutError thrown by a collaborator inside a block is reported
\* like the block's deadline overrun: in the startup block as the HordeFailed
\* "Timed out waiting for initial job details from miner", in the download,
\* execution and upload blocks as a JobFailed of reason timeout with the
\* block's "... time exceeded" message.
C36_CollaboratorTimeoutAsOverrun ==
    raised.cause = "collaborator" /\ raised.thrown = "TimeoutError" =>
        IF raised.phase = "startup"
        THEN /\ LastSent.type = "V0HordeFailedRequest"
             /\ LastSent.message = TimedOutMsg
        ELSE /\ LastSent.type = "V0JobFailedRequest"
             /\ LastSent.reason = "timeout"
             /\ LastSent.message = PhaseTimeoutMsg(raised.phase)

\* download_volume threw TimeoutError with time left on the deadline.
C36_Witness ==
    /\ pc = "send_job_failed"
    /\ raised.cause = "collaborator"
    /\ raised.thrown = "TimeoutError"
    /\ FailedIn("download_volume")
    /\ now < deadline

\* C37: when no time is left at the download stage's wait_for, the run ends
\* with a JobFailed of reason timeout whose stage is volume_download, and
\* VolumesReady is not sent.
C37_ExpiredAtDownloadEntry ==
    Overran("download") /\ ~Called("full_payload") =>
        /\ LastSent.type = "V0JobFailedRequest"
        /\ LastSent.reason = "timeout"
        /\ LastSent.stage = "volume_download"
        /\ ~Sent("V0VolumesReadyRequest")

\* The limits the timing details t have added to the deadline by the time
\* block p is entered.
CumulativeBudget(t, p, streaming) ==
    t.allowed_leeway + OwnLimit(t, "download", streaming)
        + (IF p \in {"execution", "upload"}
           THEN OwnLimit(t, "execution", streaming) ELSE 0)
        + (IF p = "upload" THEN OwnLimit(t, "upload", streaming) ELSE 0)

\* C38: with timing details the deadline of a stage is the instant the
\* startup block was left plus allowed_leeway plus the limits of that stage
\* and of the stages before it, so the time left at the stage's entry is
\* that sum minus the time elapsed since startup: what earlier stages did
\* not use is still there, what the startup limit did not use is not.
C38_CumulativeDeadline ==
    \A r \in request :
        TimingMode(r) /\ phase \in StageBlocks =>
            /\ deadline = The(stages_since)
                  + CumulativeBudget(The(r.executor_timing), phase, is_streaming_job)
            /\ InStageWait => The(expiry) = deadline

\* The upload stage has more time than its own limit, left over by the
\* stages before it; the startup block had been left before its limit.
C38_Witness ==
    /\ pc = "upload_results"
    /\ startup_time_limit = MaxLimit
    /\ stages_since = {0}
    /\ \E r \in request :
          /\ TimingMode(r)
          /\ deadline - now > The(r.executor_timing).upload_time_limit

\* The failure messages sent so far.
FailurePositions == {i \in 1..Len(sent) : sent[i].type \in FailureTypes}

\* C39: when the send of the failure message raises inside execute's
\* handler, runner.clean() is still called once, no further message is
\* sent, and execute ends with the exception once the client is closed.
C39_FailingFailureSend ==
    outcome = "raised" =>
        /\ pc \in {"clean", "close_client", "done"}
        /\ clean_calls = 1
        /\ Cardinality(FailurePositions) = 1
        /\ LastSent.type \in FailureTypes
        /\ \E op \in FailureSends : Then(op, "clean")
        /\ Finished => client = "closed"

\* The send of a JobFailed raised; the run is over.
C39_Witness ==
    /\ Finished
    /\ outcome = "raised"
    /\ raised.kind = "JobError"
    /\ client = "closed"

\* The stage whose completion a stage-transition message announces.
StageOfMessage(type) ==
    CASE type = "V0ExecutorReadyRequest" -> "executor_startup"
      [] type = "V0VolumesReadyRequest"  -> "volume_download"
      [] type = "V0ExecutionDoneRequest" -> "execution"
      [] type = "V0JobFinishedRequest"   -> "result_upload"
      [] OTHER -> "-"

\* The send that ends the stage body of block p.
SendOf(p) ==
    CASE p = "startup"   -> "send_executor_ready"
      [] p = "download"  -> "send_volumes_ready"
      [] p = "execution" -> "send_execution_done"
      [] p = "upload"    -> "send_result"
      [] OTHER -> "-"

\* The timeout scope of a block fired while the task was suspended in the
\* send of that block's stage-transition message.
DeadlineDuringSend ==
    /\ raised.cause = "deadline"
    /\ FailedIn(SendOf(raised.phase))

\* C40: when the deadline fires during such a send, no failure message is labelled with a
\* stage whose success message the run has already sent: JobFinished is not
\* followed by a JobFailed of stage result_upload, VolumesReady not by a
\* JobFailed of stage volume_download.
C40_NoSuccessAndFailureOfOneStage ==
    DeadlineDuringSend =>
        \A i \in 1..Len(sent) : \A j \in (i + 1)..Len(sent) :
            sent[j].type \in FailureTypes =>
                sent[j].stage # StageOfMessage(sent[i].type)

====
